---- MODULE Spec2Model ----
(***************************************************************************)
(* Model of scripts/convert_to_safe_migration.py: make_safe, the           *)
(* line-by-line rewriter that turns a SQL migration into a re-runnable     *)
(* one.                                                                    *)
(*                                                                         *)
(* Text is a sequence of symbols.  A symbol stands for one run of          *)
(* characters that the program never looks inside: a keyword word          *)
(* ("CREATE", "INDEX", ...), a single space, a double quote, the           *)
(* terminator ";", the line separator "\n", or an opaque identifier        *)
(* character "x"/"T"/"I"/"K".  Every string operation of the program       *)
(* (strip, startswith, in, split, replace, re.search, rstrip, join) is     *)
(* computed on these sequences the way Python computes it on characters.   *)
(***************************************************************************)
EXTENDS Integers, Sequences, FiniteSets, TLC

VARIABLES sql_content, lines, new_lines, i, pc, stmt,
          type_name, constraint_name, result

vars == <<sql_content, lines, new_lines, i, pc, stmt,
          type_name, constraint_name, result>>

\* ------------------------------------------------------------------------
\* Symbols and keyword texts
\* ------------------------------------------------------------------------
SP == " "
NL == "\n"
QUOTE == "\""
TERMINATOR == ";"

\* Characters removed by str.strip() with no argument.
Whitespace == {SP, NL}

KwCreateType == <<"CREATE", SP, "TYPE">>
KwCreateTable == <<"CREATE", SP, "TABLE">>
KwCreateTableGuarded == <<"CREATE", SP, "TABLE", SP, "IF", SP, "NOT", SP, "EXISTS">>
KwCreateIndex == <<"CREATE", SP, "INDEX">>
KwCreateUniqueIndex == <<"CREATE", SP, "UNIQUE", SP, "INDEX">>
KwIndex == <<"INDEX">>
KwIndexSp == <<"INDEX", SP>>
KwIndexGuardedSp == <<"INDEX", SP, "IF", SP, "NOT", SP, "EXISTS", SP>>
KwIfNotExists == <<"IF", SP, "NOT", SP, "EXISTS">>
KwAlterTable == <<"ALTER", SP, "TABLE">>
KwAddConstraint == <<"ADD", SP, "CONSTRAINT">>
KwAsEnum == <<"AS", SP, "ENUM">>

\* ------------------------------------------------------------------------
\* Python string operations, on sequences of symbols
\* ------------------------------------------------------------------------

\* s[k:] for a 0-based k
From(s, k) == SubSeq(s, k + 1, Len(s))

\* s.startswith(p)
StartsWith(s, p) == Len(s) >= Len(p) /\ SubSeq(s, 1, Len(p)) = p

\* p occurs in s at 0-based offset k
OccursAt(s, p, k) == k + Len(p) <= Len(s) /\ SubSeq(s, k + 1, k + Len(p)) = p

\* p in s
Contains(s, p) == \E k \in 0..(Len(s) - Len(p)) : OccursAt(s, p, k)

\* s.find(p): 0-based offset of the first occurrence, -1 if none
Find(s, p) ==
    IF Contains(s, p)
    THEN CHOOSE k \in 0..(Len(s) - Len(p)) :
            OccursAt(s, p, k) /\ \A j \in 0..(k - 1) : ~OccursAt(s, p, j)
    ELSE -1

RECURSIVE LStrip(_)
LStrip(s) == IF s # <<>> /\ Head(s) \in Whitespace THEN LStrip(Tail(s)) ELSE s

RECURSIVE RStrip(_)
RStrip(s) ==
    IF s # <<>> /\ s[Len(s)] \in Whitespace THEN RStrip(SubSeq(s, 1, Len(s) - 1)) ELSE s

\* s.strip()
Strip(s) == RStrip(LStrip(s))

\* s.rstrip(c) for a one-character c
RECURSIVE RStripChar(_, _)
RStripChar(s, c) ==
    IF s # <<>> /\ s[Len(s)] = c THEN RStripChar(SubSeq(s, 1, Len(s) - 1), c) ELSE s

\* s.split(sep): the pieces between the non-overlapping occurrences of sep,
\* scanned left to right; always at least one piece.
RECURSIVE Split(_, _)
Split(s, sep) ==
    IF ~Contains(s, sep) THEN <<s>>
    ELSE LET k == Find(s, sep)
         IN  <<SubSeq(s, 1, k)>> \o Split(From(s, k + Len(sep)), sep)

\* sep.join(parts)
RECURSIVE Join(_, _)
Join(parts, sep) ==
    IF parts = <<>> THEN <<>>
    ELSE IF Len(parts) = 1 THEN Head(parts)
    ELSE Head(parts) \o sep \o Join(Tail(parts), sep)

\* s.replace(old, new): every non-overlapping occurrence, left to right
RECURSIVE Replace(_, _, _)
Replace(s, old, new) ==
    IF ~Contains(s, old) THEN s
    ELSE LET k == Find(s, old)
         IN  SubSeq(s, 1, k) \o new \o Replace(From(s, k + Len(old)), old, new)

\* re.search(kw + ' "([^"]+)"', line): offsets k at which kw, a space and an
\* opening quote are followed by at least one non-quote symbol and then a
\* closing quote.
QuotedAt(line, kw, k) ==
    LET open == kw \o <<SP, QUOTE>>
        a == k + Len(open) + 1
    IN  /\ OccursAt(line, open, k)
        /\ a <= Len(line)
        /\ line[a] # QUOTE
        /\ \E e \in (a + 1)..Len(line) : line[e] = QUOTE

\* bool(match)
HasQuoted(line, kw) == \E k \in 0..Len(line) : QuotedAt(line, kw, k)

\* match.group(1) of the leftmost match
QuotedName(line, kw) ==
    LET k == CHOOSE k \in 0..Len(line) :
                 QuotedAt(line, kw, k) /\ \A j \in 0..(k - 1) : ~QuotedAt(line, kw, j)
        a == k + Len(kw) + 3
        e == CHOOSE e \in (a + 1)..Len(line) :
                 line[e] = QUOTE /\ \A j \in a..(e - 1) : line[j] # QUOTE
    IN  SubSeq(line, a, e - 1)

\* ------------------------------------------------------------------------
\* Output templates
\* ------------------------------------------------------------------------
Indent4 == <<SP, SP, SP, SP>>

\* The f-string of the CREATE TYPE branch
EnumBlock(name, enum_def) ==
    <<"DO", SP, "$$", SP, "BEGIN", NL>>
    \o Indent4 \o KwCreateType \o <<SP, QUOTE>> \o name \o <<QUOTE, SP>>
    \o KwAsEnum \o <<SP>> \o enum_def \o <<TERMINATOR, NL>>
    \o <<"EXCEPTION", NL>>
    \o Indent4 \o <<"WHEN", SP, "duplicate_object", SP, "THEN", SP, "null", TERMINATOR, NL>>
    \o <<"END", SP, "$$", TERMINATOR>>

\* The f-string of the ADD CONSTRAINT branch
ConstraintBlock(name, statement) ==
    <<"DO", SP, "$$", NL, "BEGIN", NL>>
    \o Indent4 \o KwIfNotExists
    \o <<SP, "(", "SELECT", SP, "1", SP, "FROM", SP, "pg_constraint", SP,
         "WHERE", SP, "conname", SP, "=", SP, "'">>
    \o name \o <<"'", ")", SP, "THEN", NL>>
    \o Indent4 \o Indent4 \o statement \o <<NL>>
    \o Indent4 \o <<"END", SP, "IF", TERMINATOR, NL>>
    \o <<"END", NL, "$$", TERMINATOR>>

\* stmt.split('AS ENUM')
EnumParts(statement) == Split(statement, KwAsEnum)

\* stmt.split('AS ENUM')[1].strip().rstrip(';')
EnumDef(statement) == RStripChar(Strip(EnumParts(statement)[2]), TERMINATOR)

\* line.replace('CREATE TABLE', 'CREATE TABLE IF NOT EXISTS')
TableRewrite(line) == Replace(line, KwCreateTable, KwCreateTableGuarded)

\* line.split('INDEX ')
IndexParts(line) == Split(line, KwIndexSp)

\* parts[0] + 'INDEX IF NOT EXISTS ' + parts[1]
IndexRewrite(line) == IndexParts(line)[1] \o KwIndexGuardedSp \o IndexParts(line)[2]

\* ------------------------------------------------------------------------
\* Classification of a line by the if / elif chain
\* ------------------------------------------------------------------------
IsCreateType(line) == StartsWith(Strip(line), KwCreateType)

IsCreateTable(line) == StartsWith(Strip(line), KwCreateTable)

IsCreateIndex(line) ==
    StartsWith(Strip(line), KwCreateIndex) \/ StartsWith(Strip(line), KwCreateUniqueIndex)

IsAddConstraint(line) ==
    StartsWith(Strip(line), KwAlterTable) /\ Contains(line, KwAddConstraint)

Branch(line) ==
    IF IsCreateType(line) THEN "enum"
    ELSE IF IsCreateTable(line) THEN "table"
    ELSE IF IsCreateIndex(line) THEN "index"
    ELSE IF IsAddConstraint(line) THEN "constraint"
    ELSE "none"

\* table_match and constraint_match
HasConstraintNames(line) ==
    HasQuoted(line, KwAlterTable) /\ HasQuoted(line, KwAddConstraint)

\* ------------------------------------------------------------------------
\* Inputs: scripts of at most MaxLines lines drawn from a catalogue that
\* holds, for every branch, a line taking it and a line taking its fallback
\* ------------------------------------------------------------------------
MaxLines == 3

LEmpty == <<>>
LTerm == <<"x", TERMINATOR>>
LAlterOther == KwAlterTable \o <<SP, QUOTE, "T", QUOTE, SP, "x", TERMINATOR>>
LEnum == KwCreateType \o <<SP, QUOTE, "T", QUOTE, SP>> \o KwAsEnum \o <<SP, "x", TERMINATOR>>
LEnumOpen == KwCreateType \o <<SP, QUOTE, "T", QUOTE, SP>> \o KwAsEnum \o <<SP, "x">>
LEnumHead == <<SP>> \o KwCreateType \o <<SP, QUOTE, "T", QUOTE>>
LEnumTail == KwAsEnum \o <<SP, "x", TERMINATOR>>
LEnumUnquoted == KwCreateType \o <<SP, "T", SP>> \o KwAsEnum \o <<SP, "x", TERMINATOR>>
LTable == KwCreateTable \o <<SP, QUOTE, "T", QUOTE, SP, "x", TERMINATOR>>
LTableTwice ==
    <<SP>> \o KwCreateTable \o <<SP, QUOTE, "T", QUOTE, SP, "'">> \o KwCreateTable
    \o <<"'", TERMINATOR>>
LIndex == KwCreateIndex \o <<SP, QUOTE, "I", QUOTE, SP, "x", TERMINATOR>>
LIndexGuarded ==
    KwCreateUniqueIndex \o <<SP>> \o KwIfNotExists \o <<SP, QUOTE, "I", QUOTE, TERMINATOR>>
LIndexTwice ==
    KwCreateUniqueIndex \o <<SP, QUOTE, "I", QUOTE, TERMINATOR, SP>> \o KwIndexSp \o <<"x">>
LIndexBare == KwCreateIndex
LConstraint ==
    KwAlterTable \o <<SP, QUOTE, "T", QUOTE, SP>> \o KwAddConstraint
    \o <<SP, QUOTE, "K", QUOTE, SP, "x", TERMINATOR>>
LConstraintOpen ==
    KwAlterTable \o <<SP, QUOTE, "T", QUOTE, SP>> \o KwAddConstraint
    \o <<SP, QUOTE, "K", QUOTE>>
LConstraintUnquoted ==
    KwAlterTable \o <<SP, "T", SP>> \o KwAddConstraint
    \o <<SP, QUOTE, "K", QUOTE, SP, "x", TERMINATOR>>

LineCatalogue ==
    { LEmpty, LTerm, LAlterOther,
      LEnum, LEnumOpen, LEnumHead, LEnumTail, LEnumUnquoted,
      LTable, LTableTwice,
      LIndex, LIndexGuarded, LIndexTwice, LIndexBare,
      LConstraint, LConstraintOpen, LConstraintUnquoted }

Scripts == UNION { [1..n -> LineCatalogue] : n \in 1..MaxLines }

\* The texts read from manual_migration.sql
InputTexts == { Join(script, <<NL>>) : script \in Scripts }

\* ------------------------------------------------------------------------
\* make_safe
\* ------------------------------------------------------------------------
Init ==
    /\ sql_content \in InputTexts
    /\ lines = <<>>
    /\ new_lines = <<>>
    /\ i = 0
    /\ pc = "start"
    /\ stmt = <<>>
    /\ type_name = <<>>
    /\ constraint_name = <<>>
    /\ result = <<>>

\* lines[i]
Line == lines[i + 1]

\* the main loop is at its head with a line left to classify
AtLine == pc = "scan" /\ i < Len(lines)

\* the loop's condition with the terminator test left out
MoreToAccumulateIgnoringTerminator == i + 1 < Len(lines)

\* the accumulation loop's condition
MoreToAccumulate == ~Contains(stmt, <<TERMINATOR>>) /\ i + 1 < Len(lines)

\* SplitLines as str.splitlines() would do it: no empty last line
SplitLinesDroppingLastEmpty ==
    /\ pc = "start"
    /\ lines' = LET parts == Split(sql_content, <<NL>>)
                IN  IF parts[Len(parts)] = <<>>
                    THEN SubSeq(parts, 1, Len(parts) - 1)
                    ELSE parts
    /\ new_lines' = <<>>
    /\ i' = 0
    /\ pc' = "scan"
    /\ UNCHANGED <<sql_content, stmt, type_name, constraint_name, result>>

SplitLines ==
    /\ pc = "start"
    /\ lines' = Split(sql_content, <<NL>>)
    /\ new_lines' = <<>>
    /\ i' = 0
    /\ pc' = "scan"
    /\ UNCHANGED <<sql_content, stmt, type_name, constraint_name, result>>

EnumBegin ==
    /\ AtLine
    /\ Branch(Line) = "enum"
    /\ HasQuoted(Line, KwCreateType)
    /\ type_name' = QuotedName(Line, KwCreateType)
    /\ stmt' = Line
    /\ pc' = "enum_acc"
    /\ UNCHANGED <<sql_content, lines, new_lines, i, constraint_name, result>>

EnumAccumulate ==
    /\ pc = "enum_acc"
    /\ MoreToAccumulate
    /\ i' = i + 1
    /\ stmt' = stmt \o <<NL>> \o lines[i + 2]
    /\ UNCHANGED <<sql_content, lines, new_lines, pc, type_name, constraint_name, result>>

EnumEmit ==
    /\ pc = "enum_acc"
    /\ ~MoreToAccumulate
    /\ Len(EnumParts(stmt)) >= 2
    /\ new_lines' = Append(new_lines, EnumBlock(type_name, EnumDef(stmt)))
    /\ i' = i + 1
    /\ pc' = "scan"
    /\ UNCHANGED <<sql_content, lines, stmt, type_name, constraint_name, result>>

\* stmt.split('AS ENUM')[1] with no 'AS ENUM' in stmt: IndexError
EnumIndexError ==
    /\ pc = "enum_acc"
    /\ ~MoreToAccumulate
    /\ Len(EnumParts(stmt)) < 2
    /\ pc' = "raised"
    /\ UNCHANGED <<sql_content, lines, new_lines, i, stmt, type_name, constraint_name, result>>

\* EnumFallback with the cursor also moved past the line that follows
EnumFallbackConsumingNext ==
    /\ AtLine
    /\ Branch(Line) = "enum"
    /\ ~HasQuoted(Line, KwCreateType)
    /\ new_lines' = Append(new_lines, Line)
    /\ i' = IF i + 1 < Len(lines) THEN i + 2 ELSE i + 1
    /\ UNCHANGED <<sql_content, lines, pc, stmt, type_name, constraint_name, result>>

EnumFallback ==
    /\ AtLine
    /\ Branch(Line) = "enum"
    /\ ~HasQuoted(Line, KwCreateType)
    /\ new_lines' = Append(new_lines, Line)
    /\ i' = i + 1
    /\ UNCHANGED <<sql_content, lines, pc, stmt, type_name, constraint_name, result>>

CreateTable ==
    /\ AtLine
    /\ Branch(Line) = "table"
    /\ new_lines' = Append(new_lines, TableRewrite(Line))
    /\ i' = i + 1
    /\ UNCHANGED <<sql_content, lines, pc, stmt, type_name, constraint_name, result>>

\* 'INDEX' in line and 'IF NOT EXISTS' not in line
IndexNeedsGuard(line) == Contains(line, KwIndex) /\ ~Contains(line, KwIfNotExists)

CreateIndex ==
    /\ AtLine
    /\ Branch(Line) = "index"
    /\ IndexNeedsGuard(Line)
    /\ Len(IndexParts(Line)) >= 2
    /\ new_lines' = Append(new_lines, IndexRewrite(Line))
    /\ i' = i + 1
    /\ UNCHANGED <<sql_content, lines, pc, stmt, type_name, constraint_name, result>>

\* line.split('INDEX ')[1] with no 'INDEX ' in line: IndexError
CreateIndexError ==
    /\ AtLine
    /\ Branch(Line) = "index"
    /\ IndexNeedsGuard(Line)
    /\ Len(IndexParts(Line)) < 2
    /\ pc' = "raised"
    /\ UNCHANGED <<sql_content, lines, new_lines, i, stmt, type_name, constraint_name, result>>

IndexUnchanged ==
    /\ AtLine
    /\ Branch(Line) = "index"
    /\ ~IndexNeedsGuard(Line)
    /\ new_lines' = Append(new_lines, Line)
    /\ i' = i + 1
    /\ UNCHANGED <<sql_content, lines, pc, stmt, type_name, constraint_name, result>>

ConstraintBegin ==
    /\ AtLine
    /\ Branch(Line) = "constraint"
    /\ HasConstraintNames(Line)
    /\ constraint_name' = QuotedName(Line, KwAddConstraint)
    /\ stmt' = Line
    /\ pc' = "constraint_acc"
    /\ UNCHANGED <<sql_content, lines, new_lines, i, type_name, result>>

\* ConstraintAccumulate folding the statement onto one line
ConstraintAccumulateJoinedBySpace ==
    /\ pc = "constraint_acc"
    /\ MoreToAccumulate
    /\ i' = i + 1
    /\ stmt' = stmt \o <<SP>> \o lines[i + 2]
    /\ UNCHANGED <<sql_content, lines, new_lines, pc, type_name, constraint_name, result>>

ConstraintAccumulate ==
    /\ pc = "constraint_acc"
    /\ MoreToAccumulate
    /\ i' = i + 1
    /\ stmt' = stmt \o <<NL>> \o lines[i + 2]
    /\ UNCHANGED <<sql_content, lines, new_lines, pc, type_name, constraint_name, result>>

ConstraintEmit ==
    /\ pc = "constraint_acc"
    /\ ~MoreToAccumulate
    /\ new_lines' = Append(new_lines, ConstraintBlock(constraint_name, stmt))
    /\ i' = i + 1
    /\ pc' = "scan"
    /\ UNCHANGED <<sql_content, lines, stmt, type_name, constraint_name, result>>

ConstraintFallback ==
    /\ AtLine
    /\ Branch(Line) = "constraint"
    /\ ~HasConstraintNames(Line)
    /\ new_lines' = Append(new_lines, Line)
    /\ i' = i + 1
    /\ UNCHANGED <<sql_content, lines, pc, stmt, type_name, constraint_name, result>>

\* PassThrough that leaves blank lines out
PassThroughSkippingBlank ==
    /\ AtLine
    /\ Branch(Line) = "none"
    /\ new_lines' = IF Strip(Line) = <<>> THEN new_lines ELSE Append(new_lines, Line)
    /\ i' = i + 1
    /\ UNCHANGED <<sql_content, lines, pc, stmt, type_name, constraint_name, result>>

PassThrough ==
    /\ AtLine
    /\ Branch(Line) = "none"
    /\ new_lines' = Append(new_lines, Line)
    /\ i' = i + 1
    /\ UNCHANGED <<sql_content, lines, pc, stmt, type_name, constraint_name, result>>

Return ==
    /\ pc = "scan"
    /\ i >= Len(lines)
    /\ result' = Join(new_lines, <<NL>>)
    /\ pc' = "done"
    /\ UNCHANGED <<sql_content, lines, new_lines, i, stmt, type_name, constraint_name>>

Next ==
    \/ SplitLines
    \/ EnumBegin
    \/ EnumAccumulate
    \/ EnumEmit
    \/ EnumIndexError
    \/ EnumFallback
    \/ CreateTable
    \/ CreateIndex
    \/ CreateIndexError
    \/ IndexUnchanged
    \/ ConstraintBegin
    \/ ConstraintAccumulate
    \/ ConstraintEmit
    \/ ConstraintFallback
    \/ PassThrough
    \/ Return

Spec == Init /\ [][Next]_vars

TypeOK ==
    /\ pc \in {"start", "scan", "enum_acc", "constraint_acc", "done", "raised"}
    /\ i \in 0..Len(lines)

\* ------------------------------------------------------------------------
\* Vocabulary of the properties
\* ------------------------------------------------------------------------
Range(s) == { s[k] : k \in 1..Len(s) }

\* s is t with zero or more entries removed
RECURSIVE IsSubseq(_, _)
IsSubseq(s, t) ==
    IF s = <<>> THEN TRUE
    ELSE IF t = <<>> THEN FALSE
    ELSE IF Head(s) = Head(t) THEN IsSubseq(Tail(s), Tail(t))
    ELSE IsSubseq(s, Tail(t))

\* the trimmed line begins with one of the four recognized DDL patterns
MatchesLeadingPattern(line) ==
    IsCreateType(line) \/ IsCreateTable(line) \/ IsCreateIndex(line) \/ IsAddConstraint(line)

\* recognized at the keyword level, but the quoted identifiers are missing
IsFallbackLine(line) ==
    \/ IsCreateType(line) /\ ~HasQuoted(line, KwCreateType)
    \/ /\ IsAddConstraint(line)
       /\ ~HasQuoted(line, KwAlterTable) \/ ~HasQuoted(line, KwAddConstraint)

\* a line that opens a multi-line statement: its identifiers were extracted
Accumulates(line) ==
    \/ IsCreateType(line) /\ HasQuoted(line, KwCreateType)
    \/ IsAddConstraint(line) /\ HasQuoted(line, KwAlterTable) /\ HasQuoted(line, KwAddConstraint)

\* The Statement of the data model: from its first line a up to and
\* including the first line that brings a terminator, or to the last line.
StatementEnd(ls, a) ==
    IF ~Accumulates(ls[a]) THEN a
    ELSE IF \E b \in a..Len(ls) : Contains(ls[b], <<TERMINATOR>>)
    THEN CHOOSE b \in a..Len(ls) :
            /\ Contains(ls[b], <<TERMINATOR>>)
            /\ \A c \in a..(b - 1) : ~Contains(ls[c], <<TERMINATOR>>)
    ELSE Len(ls)

\* The first lines of the statements of a script, in order
RECURSIVE HeadsFrom(_, _)
HeadsFrom(ls, a) ==
    IF a > Len(ls) THEN <<>> ELSE <<a>> \o HeadsFrom(ls, StatementEnd(ls, a) + 1)

Heads(ls) == HeadsFrom(ls, 1)

\* the text of the statement that starts at line a
StatementText(ls, a) == Join(SubSeq(ls, a, StatementEnd(ls, a)), <<NL>>)

Finished == pc \in {"done", "raised"}

\* ------------------------------------------------------------------------
\* C3: make_safe has no failure path: whatever its input, the scan never
\* ends by raising an error.
\* ------------------------------------------------------------------------
C3_NoFailurePath == pc # "raised"

\* ------------------------------------------------------------------------
\* C4: when no line of the input matches any of the four leading patterns,
\* make_safe returns, and the text it returns is the input text, symbol for
\* symbol (empty lines and a trailing line separator included).
\* ------------------------------------------------------------------------
NoLineMatches == \A k \in 1..Len(lines) : ~MatchesLeadingPattern(lines[k])

C4_PassThroughRoundTrip ==
    (Finished /\ NoLineMatches) => (pc = "done" /\ result = sql_content)

\* a returned script of three unmatched lines, the last one empty
C4_Witness ==
    /\ pc = "done"
    /\ NoLineMatches
    /\ Len(lines) = 3
    /\ lines[1] # <<>>
    /\ lines[3] = <<>>
    /\ result = sql_content

\* ------------------------------------------------------------------------
\* C9: at a line recognized by its keywords whose quoted identifiers cannot
\* be extracted, the step emits exactly that line, moves the cursor by one
\* line, consumes no lookahead, and leaves the scan at the head of the main
\* loop, where the very next line is classified on its own.
\* ------------------------------------------------------------------------
C9_FallbackStep ==
    (AtLine /\ IsFallbackLine(Line)) =>
        /\ new_lines' = Append(new_lines, Line)
        /\ i' = i + 1
        /\ pc' = "scan"
        /\ stmt' = stmt

C9_FallbackConsumesOneLine == [][C9_FallbackStep]_vars

\* a malformed CREATE TYPE line went through unchanged and the line after it
\* was rewritten as a statement of its own
C9_Witness ==
    /\ pc = "done"
    /\ Len(lines) = 2
    /\ IsFallbackLine(lines[1])
    /\ IsCreateType(lines[1])
    /\ IsCreateTable(lines[2])
    /\ new_lines = <<lines[1], TableRewrite(lines[2])>>

\* ------------------------------------------------------------------------
\* C10: an accumulated statement is exactly the lines from its first line
\* to the first line that brings a ';' (or to the last line of the script);
\* the main loop then resumes right after it, so the cursor only moves
\* forward, one line per line consumed, no line is classified twice or
\* skipped, and the scan comes to an end.
\* ------------------------------------------------------------------------
C10_Extent ==
    LET H == Heads(lines)
    IN  /\ pc = "scan" =>
            /\ i = Len(lines) \/ (i + 1) \in Range(H)
            /\ Len(new_lines) = Cardinality({ h \in Range(H) : h <= i })
        /\ pc \in {"enum_acc", "constraint_acc"} =>
            \E h \in Range(H) :
                /\ Accumulates(lines[h])
                /\ h <= i + 1
                /\ i + 1 <= StatementEnd(lines, h)
                /\ stmt = Join(SubSeq(lines, h, i + 1), <<NL>>)
        /\ pc = "done" => i = Len(lines) /\ Len(new_lines) = Len(H)

\* What is left to do: two units per line not yet consumed, and the steps
\* left at the current line.
C10_Remaining ==
    2 * (Len(lines) - i)
    + (IF pc = "scan" THEN 2 ELSE IF pc \in {"enum_acc", "constraint_acc"} THEN 1 ELSE 0)

\* A step moves the cursor forward by one line or leaves it in place, and it
\* always leaves less to do.
C10_CursorStep ==
    pc # "start" =>
        /\ i' = i + 1 \/ (i' = i /\ pc' # pc)
        /\ C10_Remaining' < C10_Remaining

\* What is left to do is never negative; as every step lowers it, the scan
\* takes finitely many steps and ends.
C10_Progress == C10_Remaining >= 0 /\ (pc = "done" => C10_Remaining = 0)

C10_AccumulationAndCursor ==
    /\ [](C10_Extent /\ C10_Progress)
    /\ [][C10_CursorStep]_vars

\* a statement of two lines was accumulated and the line after it was
\* classified by the main scan
C10_Witness ==
    /\ pc = "done"
    /\ Len(lines) = 3
    /\ Accumulates(lines[1])
    /\ StatementEnd(lines, 1) = 2
    /\ Len(new_lines) = 2
    /\ new_lines[2] = lines[3]

\* ------------------------------------------------------------------------
\* C2 as stated: every input line whose trimmed text begins with none of
\* the four recognized patterns is a line of the returned text, with
\* identical content, and these lines keep their relative order.
\* ------------------------------------------------------------------------
C2_Unmatched(line) == ~MatchesLeadingPattern(line)

RECURSIVE C2_ScannedUnmatched(_, _)
C2_ScannedUnmatched(heads, n) ==
    IF heads = <<>> \/ Head(heads) > n THEN <<>>
    ELSE (IF C2_Unmatched(lines[Head(heads)]) THEN <<lines[Head(heads)]>> ELSE <<>>)
         \o C2_ScannedUnmatched(Tail(heads), n)

C5_ValueList(statement) ==
    RStripChar(Strip(From(statement, Find(statement, KwAsEnum) + Len(KwAsEnum))), TERMINATOR)

C5_EmitStep ==
    (pc = "enum_acc" /\ pc' = "scan") =>
        new_lines' = Append(new_lines, EnumBlock(type_name, C5_ValueList(stmt)))

C5_WholeValueListKept == [][C5_EmitStep]_vars

\* ------------------------------------------------------------------------
\* C6: at a line whose trimmed text begins with CREATE TABLE the step emits
\* one line, the input line with the leading CREATE TABLE replaced by
\* CREATE TABLE IF NOT EXISTS and every other symbol unchanged, and it
\* consumes that line only.
\* ------------------------------------------------------------------------
C6_LeadingGuarded(line) ==
    LET k == Find(line, KwCreateTable)
    IN  SubSeq(line, 1, k) \o KwCreateTableGuarded \o From(line, k + Len(KwCreateTable))

C6_TableStep ==
    (AtLine /\ IsCreateTable(Line)) =>
        /\ new_lines' = Append(new_lines, C6_LeadingGuarded(Line))
        /\ i' = i + 1
        /\ pc' = "scan"

C6_OnlyLeadingKeywordReplaced == [][C6_TableStep]_vars

\* ------------------------------------------------------------------------
\* C7: whenever the index branch emits a line, that line is the input line
\* with IF NOT EXISTS inserted right after the first "INDEX " and every
\* other symbol preserved, or the input line itself when it already holds
\* IF NOT EXISTS; and the step consumes that line only.
\* ------------------------------------------------------------------------
C7_GuardInserted(line) ==
    LET k == Find(line, KwIndexSp)
    IN  SubSeq(line, 1, k) \o KwIndexGuardedSp \o From(line, k + Len(KwIndexSp))

C7_IndexStep ==
    (AtLine /\ IsCreateIndex(Line) /\ new_lines' # new_lines) =>
        /\ new_lines' = Append(new_lines,
                               IF Contains(Line, KwIfNotExists)
                               THEN Line
                               ELSE C7_GuardInserted(Line))
        /\ i' = i + 1

C7_RestOfLinePreserved == [][C7_IndexStep]_vars

\* ------------------------------------------------------------------------
\* C8: the n-th entry emitted stands for the n-th statement of the script;
\* when that statement is an ALTER TABLE ... ADD CONSTRAINT with both
\* quoted names, the entry is a DO block whose IF NOT EXISTS test reads
\* pg_constraint for conname = the extracted constraint name and whose THEN
\* part is the text of all the lines of the statement, verbatim and in order.
\* ------------------------------------------------------------------------
C8_CatalogTest(name) ==
    KwIfNotExists
    \o <<SP, "(", "SELECT", SP, "1", SP, "FROM", SP, "pg_constraint", SP,
         "WHERE", SP, "conname", SP, "=", SP, "'">>
    \o name \o <<"'", ")", SP, "THEN">>

C8_Guards(entry, name, text) ==
    /\ StartsWith(entry, <<"DO", SP, "$$", NL, "BEGIN", NL>>)
    /\ \E k \in 0..Len(entry) :
          OccursAt(entry,
                   C8_CatalogTest(name) \o <<NL>> \o Indent4 \o Indent4 \o text
                   \o <<NL>> \o Indent4 \o <<"END", SP, "IF", TERMINATOR>>,
                   k)

C8_ConstraintGuarded ==
    LET H == Heads(lines)
    IN  /\ Len(new_lines) <= Len(H)
        /\ pc = "done" => Len(new_lines) = Len(H)
        /\ \A n \in 1..Len(new_lines) :
              (IsAddConstraint(lines[H[n]]) /\ HasConstraintNames(lines[H[n]])) =>
                  C8_Guards(new_lines[n],
                            QuotedName(lines[H[n]], KwAddConstraint),
                            StatementText(lines, H[n]))

\* a constraint statement of two lines was wrapped, and the line after it
\* was emitted after the block
C8_Witness ==
    /\ pc = "done"
    /\ Len(lines) = 3
    /\ IsAddConstraint(lines[1])
    /\ StatementEnd(lines, 1) = 2
    /\ Len(new_lines) = 2
    /\ C8_Guards(new_lines[1], <<"K">>, lines[1] \o <<NL>> \o lines[2])

\* ------------------------------------------------------------------------
\* The database the returned script is run against, as far as re-running
\* goes: a catalog of the objects created so far.  A creation statement with
\* no existence guard raises when its object is already in the catalog; a
\* guarded one (IF NOT EXISTS, or a DO block) never does.  An object is
\* known by the text of the statement that creates it.
\* ------------------------------------------------------------------------
EmptyCatalog == [objects |-> {}, raised |-> FALSE]

CreatesUnguarded(entry) ==
    LET t == Strip(entry)
    IN  \/ StartsWith(t, KwCreateType)
        \/ StartsWith(t, KwCreateTable) /\ ~StartsWith(t, KwCreateTableGuarded)
        \/ /\ StartsWith(t, KwCreateIndex) \/ StartsWith(t, KwCreateUniqueIndex)
           /\ ~Contains(t, KwIfNotExists)
        \/ StartsWith(t, KwAlterTable) /\ Contains(t, KwAddConstraint)

Execute(db, entry) ==
    IF db.raised \/ ~CreatesUnguarded(entry) THEN db
    ELSE IF entry \in db.objects THEN [db EXCEPT !.raised = TRUE]
    ELSE [db EXCEPT !.objects = @ \cup {entry}]

RECURSIVE RunScript(_, _)
RunScript(db, entries) ==
    IF entries = <<>> THEN db ELSE RunScript(Execute(db, Head(entries)), Tail(entries))

\* the database after a run that started from db's objects
Rerun(db, entries) == RunScript([objects |-> db.objects, raised |-> FALSE], entries)

\* The lines of the catalogue that are complete statements the dialect accepts
ValidStatements ==
    { LEmpty, LEnum, LEnumUnquoted, LTable, LIndex, LIndexGuarded,
      LConstraint, LConstraintUnquoted }

\* a script of complete statements that runs without error on an empty catalog
ValidScript(ls) ==
    /\ \A k \in 1..Len(ls) : ls[k] \in ValidStatements
    /\ ~RunScript(EmptyCatalog, ls).raised

\* ------------------------------------------------------------------------
\* C1: for a valid input script, running the returned script a second time,
\* on the catalog its first run on an empty catalog left behind, raises no
\* error.
\* ------------------------------------------------------------------------
C1_SecondRunRaisesNothing ==
    (pc = "done" /\ ValidScript(lines)) =>
        /\ ~RunScript(EmptyCatalog, new_lines).raised
        /\ ~Rerun(RunScript(EmptyCatalog, new_lines), new_lines).raised

====
